---- MODULE Spec2Model ----
(***************************************************************************)
(* Model of the scraper agent, rust/agents/scraper/src/agent.rs:           *)
(* Scraper::from_settings builds the per-domain registry `scrapers`,       *)
(* Scraper::run walks the registry, spawns three contract-sync tasks and   *)
(* one metrics task per domain and aggregates the handles with run_all.    *)
(* The sync engine, the database and run_all live outside this file and    *)
(* are modelled by their interface.                                        *)
(***************************************************************************)
EXTENDS Integers, Sequences, FiniteSets, TLC

(* ------------------------------ bounds -------------------------------- *)
\* longest chains_to_scrape list explored
MaxChains == 2
\* how many events of the environment one behaviour holds: exits of spawned
\* tasks, records persisted by a message_dispatch stream, restarts
MaxEvents == 1

(* ------------------------------ domains ------------------------------- *)
\* the largest message nonce of the model. The nonce is a u32; the integers of
\* the model checker are 32-bit signed, so the model's nonces stop at 2^31 - 1.
\* The arithmetic of the agent on a nonce (one subtraction of 1) only meets
\* the bottom of the range.
NonceMax == 2 ^ 30 + (2 ^ 30 - 1)

ethereum == [id |-> 1, name |-> "ethereum"]
optimism == [id |-> 10, name |-> "optimism"]
\* a chain whose id is no KnownHyperlaneDomain
localchain == [id |-> 99999, name |-> "localchain"]
\* a chain configured under a name of its own with the id of a known domain
mainnet == [id |-> 1, name |-> "mainnet"]

Domains == {ethereum, optimism, localchain, mainnet}
DomainIds == {d.id : d \in Domains}

\* KnownHyperlaneDomain::from_u32(id): Some for the ids of the enum, and the
\* domain `.into()` makes of it
KnownDomains == {ethereum, optimism}
KnownDomainIds == {d.id : d \in KnownDomains}
KnownHyperlaneDomain_from_u32(id) == id \in KnownDomainIds
KnownHyperlaneDomain_into(id) == CHOOSE d \in KnownDomains : d.id = id

\* no value (Option::None) for a nonce; handle 0 is "no handle"
NoNonce == 0 - 1

\* the sets of domains a settings file may name in chains_to_scrape: the
\* empty one and two domains with one id included, nothing is refused
ConfiguredSets == {c \in SUBSET Domains : Cardinality(c) <= MaxChains}

\* the lists that name each domain of a set once: the orders the settings may
\* give them in
RECURSIVE ListsOf(_)
ListsOf(c) ==
    IF c = {} THEN {<< >>}
    ELSE UNION {{<< x >> \o t : t \in ListsOf(c \ {x})} : x \in c}

\* database contents found at the first start: empty, or left by earlier runs
DbSnapshots ==
    { [i \in DomainIds |-> NoNonce],
      [i \in DomainIds |-> IF i = ethereum.id THEN 1000
                           ELSE IF i = optimism.id THEN 1 ELSE 0] }

(* ------------------------------- state -------------------------------- *)
VARIABLES
    configured,        \* the domains settings.chains_to_scrape names
    chains_to_scrape,  \* settings.chains_to_scrape.iter(): what the loop of
                       \* from_settings has still to visit, in the list's order
    db,                \* highest persisted message nonce per domain id
    pc,                \* position of from_settings / run
    scrapers,          \* the HashMap<u32, ChainScraper> under construction
    agent,             \* the Scraper returned by from_settings, or NoAgent
    failure,           \* the construction step that failed, or NoFailure
    remaining,         \* keys of self.scrapers run() has not visited yet
    cur,               \* the key run() is working on (0: none)
    runTasks,          \* run()'s Vec of handles
    scrapeTasks,       \* scrape()'s Vec of handles
    sync,              \* the sync engine just built (local of a builder)
    latest_nonce,      \* local of build_message_indexer
    cursor,            \* the cursor just built (local of a builder)
    tasks,             \* every task spawned by this process, by handle
    finished,          \* handles in the order their tasks completed
    lookups,           \* last_message_nonce calls of this process
    handle,            \* the handle run() returned (0: none)
    events,            \* environment events so far
    budget             \* environment events this behaviour may hold

vars == << configured, chains_to_scrape, db, pc, scrapers, agent, failure,
           remaining, cur, runTasks, scrapeTasks, sync, latest_nonce, cursor,
           tasks, finished, lookups, handle, events, budget >>

NoAgent == [built |-> FALSE, scrapers |-> << >>]
NoFailure == [step |-> "none", domain |-> 0, at |-> 0, spawned |-> 0]
NoIndex == [chain |-> 0, chunk |-> 0]
NoDb == [mailbox |-> [chain |-> 0], domain |-> 0, index |-> NoIndex]
NoSync == [label |-> "none", domain |-> 0, db |-> NoDb]
NoCursor == [kind |-> "none", index_settings |-> NoIndex, start |-> NoNonce,
             next |-> NoNonce]

\* settings.chain_setup(domain): the chain configuration of a domain
chain_setup(domain) ==
    [index   |-> [chain |-> domain.id, chunk |-> domain.id * 10],
     mailbox |-> [chain |-> domain.id]]

\* HyperlaneSqlDb::new(db, mailbox, domain, provider, index)
HyperlaneSqlDb_new(mailbox, domain, index) ==
    [mailbox |-> mailbox, domain |-> domain.id, index |-> index]

\* The process starts. The set of configured domains and the database are
\* inputs; so is the order in which the list names the domains, read at each
\* start.
InitWith(b) ==
    /\ configured \in ConfiguredSets
    /\ chains_to_scrape \in ListsOf(configured)
    /\ db \in DbSnapshots
    /\ pc = "connect"
    /\ scrapers = << >>
    /\ agent = NoAgent
    /\ failure = NoFailure
    /\ remaining = {}
    /\ cur = 0
    /\ runTasks = << >>
    /\ scrapeTasks = << >>
    /\ sync = NoSync
    /\ latest_nonce = NoNonce
    /\ cursor = NoCursor
    /\ tasks = << >>
    /\ finished = << >>
    /\ lookups = << >>
    /\ handle = 0
    /\ events = 0
    /\ budget = b

Init == InitWith(MaxEvents)

\* the same start, with room for one more event of the environment
InitRace == InitWith(MaxEvents + 1)

(* --------------------------- from_settings ---------------------------- *)
\* ChainScraper { domain, db, index_settings } as built in the loop body
ChainScraper(domain) ==
    LET setup == chain_setup(domain)
    IN  [domain         |-> domain,
         db             |-> HyperlaneSqlDb_new(setup.mailbox, domain, setup.index),
         index_settings |-> setup.index]

\* scrapers.insert(domain.id(), ChainScraper { .. })
scrapers_insert(map, domain) ==
    (domain.id :> ChainScraper(domain)) @@ map

\* the outcomes of one pass through the loop body
FsOutcomes == {"ok", "chain_setup", "build_provider", "sql_db"}

\* a plausible slip: a domain that cannot be built is skipped
from_settings_skip_on_error(outcome) ==
    IF outcome = "chain_setup" THEN "panic" ELSE "fs_loop"

\* where the loop body leaves from_settings: expect() panics, `?` returns Err
from_settings_exit(outcome) ==
    CASE outcome = "ok"             -> "fs_loop"
      [] outcome = "chain_setup"    -> "panic"
      [] outcome = "build_provider" -> "fs_err"
      [] outcome = "sql_db"         -> "fs_err"

\* ScraperDb::connect(&settings.db).await?
Connect ==
    /\ pc = "connect"
    /\ \E ok \in BOOLEAN :
         IF ok THEN /\ pc' = "fs_loop"
                    /\ UNCHANGED << failure, chains_to_scrape >>
               ELSE /\ pc' = "fs_err"
                    /\ failure' = [step |-> "connect", domain |-> 0, at |-> 0,
                                   spawned |-> Len(tasks)]
                    /\ chains_to_scrape' = << >>
    /\ UNCHANGED << configured, db, scrapers, agent, remaining, cur, runTasks,
                    scrapeTasks, sync, latest_nonce, cursor, tasks, finished,
                    lookups, handle, events, budget >>

\* one iteration of `for domain in settings.chains_to_scrape.iter()`; leaving
\* the function drops the iterator
FromSettingsDomain ==
    /\ pc = "fs_loop"
    /\ chains_to_scrape # << >>
    /\ LET domain == Head(chains_to_scrape)
           position == Cardinality(configured) - Len(chains_to_scrape) + 1
       IN  \E outcome \in FsOutcomes :
             /\ pc' = from_settings_exit(outcome)
             /\ chains_to_scrape' =
                    IF from_settings_exit(outcome) = "fs_loop"
                    THEN Tail(chains_to_scrape) ELSE << >>
             /\ IF outcome = "ok"
                THEN /\ scrapers' = scrapers_insert(scrapers, domain)
                     /\ failure' = failure
                ELSE /\ scrapers' = scrapers
                     /\ failure' = [step |-> outcome, domain |-> domain.id,
                                    at |-> position, spawned |-> Len(tasks)]
    /\ UNCHANGED << configured, db, agent, remaining, cur, runTasks,
                    scrapeTasks, sync, latest_nonce, cursor, tasks, finished,
                    lookups, handle, events, budget >>

\* Ok(Self { .., scrapers, .. }); the agent is then run
FromSettingsReturn ==
    /\ pc = "fs_loop"
    /\ chains_to_scrape = << >>
    /\ agent' = [built |-> TRUE, scrapers |-> scrapers]
    /\ remaining' = DOMAIN scrapers
    /\ pc' = "run_loop"
    /\ UNCHANGED << configured, chains_to_scrape, db, scrapers, failure, cur,
                    runTasks, scrapeTasks, sync, latest_nonce, cursor, tasks,
                    finished, lookups, handle, events, budget >>

(* ------------------------------ helpers ------------------------------- *)
\* Result<Option<u32>>::unwrap_or(None) and Option<u32>::unwrap_or(0)
Ok(v) == [tag |-> "Ok", val |-> v]
Err == [tag |-> "Err", val |-> NoNonce]
\* a plausible slip: a failed lookup is read as "everything is stored"
Result_unwrap_or_max(r, default) == IF r.tag = "Ok" THEN r.val ELSE NonceMax
Result_unwrap_or(r, default) == IF r.tag = "Ok" THEN r.val ELSE default
Option_unwrap_or(o, default) == IF o = NoNonce THEN default ELSE o

\* a plausible slip: u32::wrapping_sub
wrapping_sub(a, b) == IF a >= b THEN a - b ELSE NonceMax - (b - a - 1)

\* u32::saturating_sub
saturating_sub(a, b) == IF a >= b THEN a - b ELSE 0

\* db.last_message_nonce() on a database handle: the highest persisted nonce
\* of the handle's domain, or an error of the database
last_message_nonce(dbh, ok) == IF ok THEN Ok(db[dbh.domain]) ELSE Err

\* settings.build_<event>_indexer(&domain, .., Arc::new(db.clone()))
build_indexer(event, domain, dbh) ==
    [label |-> event, domain |-> domain.id, db |-> dbh]

\* sync.forward_message_sync_cursor(index_settings, start)
forward_message_sync_cursor(index_settings, start) ==
    [kind |-> "forward", index_settings |-> index_settings,
     start |-> start, next |-> start]

\* a plausible slip: the task is spawned before its cursor is built
cursor_not_built(index_settings) == NoCursor

\* sync.rate_limited_cursor(index_settings)
rate_limited_cursor(index_settings) ==
    [kind |-> "rate_limited", index_settings |-> index_settings,
     start |-> NoNonce, next |-> NoNonce]

\* info_span!("ChainContractSync", chain=%domain.name(), event=$label)
info_span(domain, event) ==
    [name |-> "ChainContractSync", chain |-> domain.name, event |-> event]

\* no span: the context of a future that was spawned without one
NoSpan == [name |-> "", chain |-> "", event |-> ""]

\* tokio::spawn(async move { sync.sync(label, cursor).await }).instrument(span):
\* the future handed to tokio::spawn runs sync() with no span of its own
\* (span); instrument() is applied to the JoinHandle that tokio::spawn
\* returns, so the span is entered only while the handle is polled
\* (handle_span)
spawn(domain, label, engine, cur_) ==
    [kind |-> "sync", domain |-> domain.id, label |-> label,
     span |-> NoSpan, handle_span |-> info_span(domain, label),
     sync |-> engine, cursor |-> cur_, members |-> << >>,
     status |-> "running", from |-> 0]

\* metrics_updater.spawn()
metrics_spawn(domain_id) ==
    [kind |-> "metrics", domain |-> domain_id, label |-> "",
     span |-> NoSpan,
     handle_span |-> [name |-> "MetricsUpdater", chain |-> "", event |-> ""],
     sync |-> NoSync, cursor |-> NoCursor, members |-> << >>,
     status |-> "running", from |-> 0]

\* run_all(tasks): a task that waits for its members
run_all(members, domain_id) ==
    [kind |-> "group", domain |-> domain_id, label |-> "",
     span |-> NoSpan,
     handle_span |-> [name |-> "run_all", chain |-> "", event |-> ""],
     sync |-> NoSync, cursor |-> NoCursor, members |-> members,
     status |-> "running", from |-> 0]

\* a plausible slip: scrape() takes the first entry of the registry
scraper_first_entry ==
    agent.scrapers[CHOOSE k \in DOMAIN agent.scrapers :
                      \A j \in DOMAIN agent.scrapers : k <= j]

\* the registry entry scrape() works on: self.scrapers.get(&domain_id).unwrap()
scraper == agent.scrapers[cur]

Range(s) == {s[i] : i \in 1..Len(s)}


(* -------------------------------- run --------------------------------- *)
\* the variables no step of run() or scrape() touches
Settled == << configured, chains_to_scrape, db, scrapers, agent, finished,
              events, budget >>

\* a builder's `.unwrap()` on a failed construction: run() panics and the
\* process ends, and the tasks it had spawned (failure.spawned of them) with it
Panic(step) ==
    /\ pc' = "panic"
    /\ failure' = [step |-> step, domain |-> cur, at |-> 0,
                   spawned |-> Len(tasks)]
    /\ remaining' = {}
    /\ cur' = 0
    /\ runTasks' = << >>
    /\ scrapeTasks' = << >>
    /\ sync' = NoSync
    /\ latest_nonce' = NoNonce
    /\ cursor' = NoCursor
    /\ tasks' = << >>
    /\ finished' = << >>
    /\ lookups' = << >>
    /\ handle' = 0
    /\ UNCHANGED << configured, chains_to_scrape, db, scrapers, agent, events,
                    budget >>

\* a plausible slip: the loop of run() comes back to a key it has visited
RunNextDomain_again ==
    /\ pc = "run_loop"
    /\ \E k \in DOMAIN agent.scrapers :
         /\ cur' = k
         /\ remaining' = remaining \ {k}
    /\ scrapeTasks' = << >>
    /\ pc' = "msg_cursor"
    /\ UNCHANGED << Settled, failure, runTasks, sync, latest_nonce, cursor,
                    tasks, lookups, handle >>

\* `for domain in self.scrapers.keys()`: the next key, in the map's order;
\* scrape(*domain) starts with an empty Vec
RunNextDomain ==
    /\ pc = "run_loop"
    /\ \E k \in remaining :
         /\ cur' = k
         /\ remaining' = remaining \ {k}
    /\ scrapeTasks' = << >>
    /\ pc' = "msg_cursor"
    /\ UNCHANGED << Settled, failure, runTasks, sync, latest_nonce, cursor,
                    tasks, lookups, handle >>

\* build_message_indexer, up to its first await: the engine is built by
\* settings.build_message_indexer(..).await.unwrap()
MessageEngine ==
    /\ pc = "msg_cursor"
    /\ \E built \in BOOLEAN :
         IF ~built
         THEN Panic("build_message_indexer")
         ELSE /\ sync' = build_indexer("message_dispatch",
                                       scraper.domain, scraper.db)
              /\ pc' = "msg_nonce"
              /\ UNCHANGED << Settled, failure, remaining, cur, runTasks,
                              scrapeTasks, latest_nonce, cursor, tasks,
                              lookups, handle >>

\* build_message_indexer, second await: the registry entry of domain.id() is
\* asked for the last nonce; an error and a missing value both become 0
MessageNonce ==
    /\ pc = "msg_nonce"
    /\ \E ok \in BOOLEAN :
         LET dbh == agent.scrapers[scraper.domain.id].db
             res == last_message_nonce(dbh, ok)
         IN  /\ latest_nonce' =
                    Option_unwrap_or(Result_unwrap_or(res, NoNonce), 0)
             /\ lookups' = Append(lookups,
                    [domain |-> cur, of |-> dbh.domain,
                     for |-> "message_dispatch", tag |-> res.tag,
                     val |-> res.val, spawned |-> Len(tasks)])
    /\ pc' = "msg_fwd"
    /\ UNCHANGED << Settled, failure, remaining, cur, runTasks, scrapeTasks,
                    sync, cursor, tasks, handle >>

\* build_message_indexer, third await: the cursor starts one before the nonce
MessageCursor ==
    /\ pc = "msg_fwd"
    /\ cursor' = forward_message_sync_cursor(scraper.index_settings,
                                             saturating_sub(latest_nonce, 1))
    /\ pc' = "msg_spawn"
    /\ UNCHANGED << Settled, failure, remaining, cur, runTasks, scrapeTasks,
                    sync, latest_nonce, tasks, lookups, handle >>

\* build_message_indexer: tokio::spawn(..sync("message_dispatch", cursor)..),
\* and scrape() pushes the handle
MessageSpawn ==
    /\ pc = "msg_spawn"
    /\ tasks' = Append(tasks, spawn(scraper.domain, "message_dispatch",
                                    sync, cursor))
    /\ scrapeTasks' = Append(scrapeTasks, Len(tasks) + 1)
    /\ sync' = NoSync
    /\ cursor' = NoCursor
    /\ latest_nonce' = NoNonce
    /\ pc' = "dlv"
    /\ UNCHANGED << Settled, failure, remaining, cur, runTasks, lookups,
                    handle >>

\* spawn_sync_task!(name, rate_limited_cursor, label), up to its first await:
\* the engine is built by settings.name(..).await.unwrap()
spawn_sync_task_engine(name, label, at, mid) ==
    /\ pc = at
    /\ \E built \in BOOLEAN :
         IF ~built
         THEN Panic(name)
         ELSE /\ sync' = build_indexer(label, scraper.domain, scraper.db)
              /\ pc' = mid
              /\ UNCHANGED << Settled, failure, remaining, cur, runTasks,
                              scrapeTasks, latest_nonce, cursor, tasks,
                              lookups, handle >>

\* spawn_sync_task!, second await and on: the cursor is built from the index
\* settings, the task is spawned; scrape() pushes the handle
spawn_sync_task_spawn(label, mid, after) ==
    /\ pc = mid
    /\ tasks' = Append(tasks,
                       spawn(scraper.domain, label, sync,
                             rate_limited_cursor(scraper.index_settings)))
    /\ scrapeTasks' = Append(scrapeTasks, Len(tasks) + 1)
    /\ sync' = NoSync
    /\ pc' = after
    /\ UNCHANGED << Settled, failure, remaining, cur, runTasks, latest_nonce,
                    cursor, lookups, handle >>

spawn_sync_task(name, label, at, mid, after) ==
    \/ spawn_sync_task_engine(name, label, at, mid)
    \/ spawn_sync_task_spawn(label, mid, after)

\* a plausible slip: the delivery builder asks for the last nonce as well
build_delivery_indexer_with_lookup ==
    \/ spawn_sync_task_engine("build_delivery_indexer", "message_delivery",
                              "dlv", "dlv_cursor")
    \/ /\ pc = "dlv_cursor"
       /\ lookups' = Append(lookups,
              [domain |-> cur, of |-> scraper.db.domain,
               for |-> "message_delivery", tag |-> "Ok",
               val |-> db[scraper.db.domain], spawned |-> Len(tasks)])
       /\ tasks' = Append(tasks,
              spawn(scraper.domain, "message_delivery", sync,
                    rate_limited_cursor(scraper.index_settings)))
       /\ scrapeTasks' = Append(scrapeTasks, Len(tasks) + 1)
       /\ sync' = NoSync
       /\ pc' = "igp"
       /\ UNCHANGED << Settled, failure, remaining, cur, runTasks,
                       latest_nonce, cursor, handle >>

build_delivery_indexer ==
    spawn_sync_task("build_delivery_indexer", "message_delivery",
                    "dlv", "dlv_cursor", "igp")

build_interchain_gas_payment_indexer ==
    spawn_sync_task("build_interchain_gas_payment_indexer", "gas_payment",
                    "igp", "igp_cursor", "scrape_run_all")

\* scrape(): run_all(tasks) of the three handles; run() pushes its handle
ScrapeRunAll ==
    /\ pc = "scrape_run_all"
    /\ tasks' = Append(tasks, run_all(scrapeTasks, cur))
    /\ runTasks' = Append(runTasks, Len(tasks) + 1)
    /\ scrapeTasks' = << >>
    /\ pc' = "metrics"
    /\ UNCHANGED << Settled, failure, remaining, cur, sync, latest_nonce,
                    cursor, lookups, handle >>

\* settings.chain_setup(&domain.into()) of run(): the setup is looked up for
\* the known domain of the id. It is there when a configured domain has that
\* name (from_settings found it); under another name it is there or not
chain_setup_found(known, elsewhere) ==
    \/ \E d \in configured : d.name = known.name
    \/ elsewhere

\* run(): KnownHyperlaneDomain::from_u32(*domain).unwrap(),
\* chain_setup(&domain.into()).unwrap(), and MetricsUpdater::new(..) up to
\* its await
MetricsSetup ==
    /\ pc = "metrics"
    /\ IF ~KnownHyperlaneDomain_from_u32(cur)
       THEN Panic("KnownHyperlaneDomain::from_u32")
       ELSE \E elsewhere \in BOOLEAN :
              IF ~chain_setup_found(KnownHyperlaneDomain_into(cur), elsewhere)
              THEN Panic("run_chain_setup")
              ELSE /\ pc' = "metrics_new"
                   /\ UNCHANGED << Settled, failure, remaining, cur, runTasks,
                                   scrapeTasks, sync, latest_nonce, cursor,
                                   tasks, lookups, handle >>

\* run(): MetricsUpdater::new(..).await.unwrap() and
\* tasks.push(metrics_updater.spawn())
MetricsSpawn ==
    /\ pc = "metrics_new"
    /\ \E built \in BOOLEAN :
         IF ~built
         THEN Panic("MetricsUpdater::new")
         ELSE /\ tasks' = Append(tasks, metrics_spawn(cur))
              /\ runTasks' = Append(runTasks, Len(tasks) + 1)
              /\ cur' = 0
              /\ pc' = "run_loop"
              /\ UNCHANGED << Settled, failure, remaining, scrapeTasks,
                              sync, latest_nonce, cursor, lookups, handle >>

\* run(): run_all(tasks) after the loop; its handle is what run() returns
RunReturn ==
    /\ pc = "run_loop"
    /\ remaining = {}
    /\ tasks' = Append(tasks, run_all(runTasks, 0))
    /\ handle' = Len(tasks) + 1
    /\ pc' = "returned"
    /\ UNCHANGED << Settled, failure, remaining, cur, runTasks, scrapeTasks,
                    sync, latest_nonce, cursor, lookups >>


(* ------------------------------- tasks -------------------------------- *)
Handles == 1..Len(tasks)
Alive == pc \notin {"panic", "fs_err"}

Max(a, b) == IF a >= b THEN a ELSE b

\* position of handle h in the completion order (0: still running)
RECURSIVE IndexOf(_, _, _)
IndexOf(s, h, i) ==
    IF i > Len(s) THEN 0 ELSE IF s[i] = h THEN i ELSE IndexOf(s, h, i + 1)
FinishedAt(h) == IndexOf(finished, h, 1)

\* the members of a group that have completed
Done(g) == {m \in Range(tasks[g].members) : tasks[m].status # "running"}

\* the member of group g that completed first
FirstDone(g) ==
    CHOOSE m \in Done(g) : \A o \in Done(g) : FinishedAt(m) <= FinishedAt(o)

\* the future `sync.sync(label, cursor)` or the metrics loop returns:
\* Ok(()) or an error
TaskExit(h, outcome) ==
    /\ Alive
    /\ events < budget
    /\ tasks[h].kind \in {"sync", "metrics"}
    /\ tasks[h].status = "running"
    /\ tasks' = [tasks EXCEPT ![h].status = outcome]
    /\ finished' = Append(finished, h)
    /\ events' = events + 1
    /\ UNCHANGED << configured, chains_to_scrape, db, pc, scrapers, agent,
                    failure, remaining, cur, runTasks, scrapeTasks, sync,
                    latest_nonce, cursor, lookups, handle, budget >>

\* a plausible slip: the group completes without waiting for a member
GroupResolve_eager(g) ==
    /\ Alive
    /\ tasks[g].kind = "group"
    /\ tasks[g].status = "running"
    /\ tasks' = [tasks EXCEPT ![g].status = "ok"]
    /\ finished' = Append(finished, g)
    /\ UNCHANGED << configured, chains_to_scrape, db, pc, scrapers, agent,
                    failure, remaining, cur, runTasks, scrapeTasks, sync,
                    latest_nonce, cursor, lookups, handle, events, budget >>

\* a plausible slip: the group cancels the members that are still running
GroupResolve_cancelling(g) ==
    /\ Alive
    /\ tasks[g].kind = "group"
    /\ tasks[g].status = "running"
    /\ Done(g) # {}
    /\ tasks' = [h \in Handles |->
                   IF h = g
                   THEN [tasks[g] EXCEPT !.status = tasks[FirstDone(g)].status,
                                         !.from = FirstDone(g)]
                   ELSE IF h \in Range(tasks[g].members)
                           /\ tasks[h].status = "running"
                        THEN [tasks[h] EXCEPT !.status = "cancelled"]
                        ELSE tasks[h]]
    /\ finished' = Append(finished, g)
    /\ UNCHANGED << configured, chains_to_scrape, db, pc, scrapers, agent,
                    failure, remaining, cur, runTasks, scrapeTasks, sync,
                    latest_nonce, cursor, lookups, handle, events, budget >>

\* the task of run_all: it completes with the outcome of the member that
\* finished first
GroupResolve(g) ==
    /\ Alive
    /\ tasks[g].kind = "group"
    /\ tasks[g].status = "running"
    /\ Done(g) # {}
    /\ tasks' = [tasks EXCEPT ![g].status = tasks[FirstDone(g)].status,
                              ![g].from = FirstDone(g)]
    /\ finished' = Append(finished, g)
    /\ UNCHANGED << configured, chains_to_scrape, db, pc, scrapers, agent,
                    failure, remaining, cur, runTasks, scrapeTasks, sync,
                    latest_nonce, cursor, lookups, handle, events, budget >>

\* the message_dispatch stream fetches the record at its cursor, stores it
\* (an upsert) in the database of its engine, and moves on
SyncDispatch(h) ==
    /\ Alive
    /\ events < budget
    /\ tasks[h].kind = "sync"
    /\ tasks[h].label = "message_dispatch"
    /\ tasks[h].status = "running"
    /\ tasks[h].cursor.next < NonceMax
    /\ db' = [db EXCEPT ![tasks[h].sync.db.domain] =
                  Max(@, tasks[h].cursor.next)]
    /\ tasks' = [tasks EXCEPT ![h].cursor.next = @ + 1]
    /\ events' = events + 1
    /\ UNCHANGED << configured, chains_to_scrape, pc, scrapers, agent,
                    failure, remaining, cur, runTasks, scrapeTasks, sync,
                    latest_nonce, cursor, finished, lookups, handle, budget >>

\* the process ends (panic, startup error, or the operator stops it once it
\* runs) and is started again on the same configured domains and database
Restart ==
    /\ pc \in {"panic", "fs_err", "returned"}
    /\ events < budget
    /\ events' = events + 1
    /\ chains_to_scrape' \in ListsOf(configured)
    /\ pc' = "connect"
    /\ scrapers' = << >>
    /\ agent' = NoAgent
    /\ failure' = NoFailure
    /\ remaining' = {}
    /\ cur' = 0
    /\ runTasks' = << >>
    /\ scrapeTasks' = << >>
    /\ sync' = NoSync
    /\ latest_nonce' = NoNonce
    /\ cursor' = NoCursor
    /\ tasks' = << >>
    /\ finished' = << >>
    /\ lookups' = << >>
    /\ handle' = 0
    /\ UNCHANGED << configured, db, budget >>

Next ==
    \/ Connect
    \/ FromSettingsDomain
    \/ FromSettingsReturn
    \/ RunNextDomain
    \/ MessageEngine
    \/ MessageNonce
    \/ MessageCursor
    \/ MessageSpawn
    \/ build_delivery_indexer
    \/ build_interchain_gas_payment_indexer
    \/ ScrapeRunAll
    \/ MetricsSetup
    \/ MetricsSpawn
    \/ RunReturn
    \/ \E h \in Handles : \E outcome \in {"ok", "err"} : TaskExit(h, outcome)
    \/ \E g \in Handles : GroupResolve(g)
    \/ \E h \in Handles : SyncDispatch(h)
    \/ Restart

Spec == Init /\ [][Next]_vars

\* Spec with one more event of the environment
SpecRace == InitRace /\ [][Next]_vars


(* ============================== claims ================================ *)
\* the configured domain the registry holds under a key
DomainOf(id) == agent.scrapers[id].domain
ConfiguredIds == {d.id : d \in configured}

IsSync(h) == tasks[h].kind = "sync"
IsDispatch(h) == IsSync(h) /\ tasks[h].label = "message_dispatch"
IsMetrics(h) == tasks[h].kind = "metrics"
IsGroup(h) == tasks[h].kind = "group"
SyncLabels == {"message_dispatch", "message_delivery", "gas_payment"}

\* the lookups made for domain key d by this process
LookupsOf(d) == {i \in 1..Len(lookups) : lookups[i].domain = d}

\* n of a lookup that did not fail: the value returned, 0 for none
Returned(l) == IF l.val = NoNonce THEN 0 ELSE l.val

(* C1: the message_dispatch cursor starts at max(n - 1, 0), n the nonce the  *)
(* lookup returned (0 for none): 0, 1, 1000 give 0, 0, 999; the value is     *)
(* computed before the message_dispatch task of the domain is spawned.       *)
C1_SeedIsLastMinusOne ==
    /\ \A i \in 1..Len(lookups) :
         LET l == lookups[i]
             n == Returned(l)
             want == Max(n - 1, 0)
         IN  /\ \A h \in 1..l.spawned : ~(IsDispatch(h) /\ tasks[h].domain = l.domain)
             /\ l.tag = "Ok" =>
                  /\ (pc = "msg_spawn" /\ i = Len(lookups)) => cursor.start = want
                  /\ \A h \in Handles :
                       (IsDispatch(h) /\ tasks[h].domain = l.domain) =>
                          /\ tasks[h].cursor.start = want
                          /\ tasks[h].cursor.start >= 0
                          /\ tasks[h].cursor.start < Max(n, 1)
                          /\ (n = 1000 => tasks[h].cursor.start = 999)
                          /\ (n \in {0, 1} => tasks[h].cursor.start = 0)
    /\ \A h \in Handles : IsDispatch(h) => LookupsOf(tasks[h].domain) # {}

\* two streams seeded in one run: 1000 gives 999 and 1 gives 0
C1_Witness ==
    /\ \E h \in Handles : /\ IsDispatch(h)
                          /\ tasks[h].cursor.start = 999
                          /\ \E i \in LookupsOf(tasks[h].domain) :
                               lookups[i].tag = "Ok" /\ lookups[i].val = 1000
    /\ \E h \in Handles : /\ IsDispatch(h)
                          /\ tasks[h].cursor.start = 0
                          /\ \E i \in LookupsOf(tasks[h].domain) :
                               lookups[i].tag = "Ok" /\ lookups[i].val = 1

(* C2: at each start the dispatch cursor's starting value is never greater   *)
(* than the highest persisted nonce, and with persisted records it is 0 only *)
(* if that highest nonce is 0 or 1 (no re-scan from genesis).                *)
C2_NoRescanNoSkip ==
    pc = "msg_spawn" =>
        LET stored == db[scraper.db.domain]
        IN  /\ stored = NoNonce => cursor.start = 0
            /\ stored # NoNonce =>
                 /\ cursor.start <= stored
                 /\ cursor.start = 0 => stored \in {0, 1}

\* the half of C2 the agent keeps: the cursor never starts past the records
C2_NoOverSeeding ==
    pc = "msg_spawn" =>
        LET stored == db[scraper.db.domain]
        IN  cursor.start <= Max(stored, 0)

(* C3: the handle returned by run() resolves with the outcome of the task    *)
(* that was the first to exit, whatever the other tasks do.                  *)
RECURSIVE Origin(_)
Origin(h) == IF IsGroup(h) /\ tasks[h].from # 0 THEN Origin(tasks[h].from) ELSE h

C3_FailFastFirstExit ==
    (handle # 0 /\ tasks[handle].status # "running") =>
        /\ Origin(handle) = finished[1]
        /\ tasks[handle].status = tasks[finished[1]].status

(* C4: a construction error of any domain aborts the run before any task of  *)
(* any domain has been spawned.                                              *)
C4_NoTaskBeforeFailure ==
    failure.step # "none" => failure.spawned = 0


(* C5: once run() has returned, every configured domain has exactly four     *)
(* spawned tasks of its own: one per sync label and one metrics task.        *)
LeafTasksOf(d) == {h \in Handles : tasks[h].domain = d /\ ~IsGroup(h)}

\* the tasks spawned for a configured domain: those of its id, when the
\* registry entry they were built from is the domain's
TasksFor(d) == {h \in LeafTasksOf(d.id) : DomainOf(d.id) = d}

C5_FourTasksPerDomain ==
    pc = "returned" =>
        /\ \A d \in configured :
             /\ Cardinality(TasksFor(d)) = 4
             /\ \A label \in SyncLabels :
                  Cardinality({h \in TasksFor(d) :
                                 IsSync(h) /\ tasks[h].label = label}) = 1
             /\ Cardinality({h \in TasksFor(d) : IsMetrics(h)}) = 1
        /\ \A h \in Handles : ~IsGroup(h) => tasks[h].domain \in ConfiguredIds

\* the half of C5 the agent keeps: four tasks for every key of the registry
C5_FourTasksPerRegistryKey ==
    pc = "returned" =>
        \A k \in DOMAIN agent.scrapers :
           /\ Cardinality(LeafTasksOf(k)) = 4
           /\ \A label \in SyncLabels :
                Cardinality({h \in LeafTasksOf(k) :
                               IsSync(h) /\ tasks[h].label = label}) = 1
           /\ Cardinality({h \in LeafTasksOf(k) : IsMetrics(h)}) = 1

(* C6: from its seeding on, the next nonce a message_dispatch cursor fetches *)
(* is at least the last nonce persisted for its domain.                      *)
C6_NextAtLeastPersisted ==
    /\ pc = "msg_spawn" => cursor.next >= db[scraper.db.domain]
    /\ \A h \in Handles :
         IsDispatch(h) => tasks[h].cursor.next >= db[tasks[h].domain]

\* the same bound with the one record the seeding rule goes back
\* (latest_nonce.saturating_sub(1)): a lookup that fails still breaks it
C6_NextAtLeastOneBehind ==
    /\ pc = "msg_spawn" => cursor.next + 1 >= db[scraper.db.domain]
    /\ \A h \in Handles :
         IsDispatch(h) => tasks[h].cursor.next + 1 >= db[tasks[h].domain]

\* what the agent keeps: a cursor seeded from a lookup that answered is never
\* more than one record behind the last persisted nonce
C6_OneBehindWhenLookupAnswers ==
    /\ pc = "msg_spawn" =>
         (lookups[Len(lookups)].tag = "Ok" =>
             cursor.next + 1 >= db[scraper.db.domain])
    /\ \A h \in Handles :
         IsDispatch(h) =>
            \A i \in LookupsOf(tasks[h].domain) :
               lookups[i].tag = "Ok" =>
                   tasks[h].cursor.next + 1 >= db[tasks[h].domain]

(* C7: the diagnostic context every sync task runs in carries the name of   *)
(* the domain the task was built for and the label handed to sync(); tasks   *)
(* of two domains, or of two event types, never share an attribution.        *)
C7_SpanNamesDomainAndEvent ==
    /\ \A h \in Handles :
         IsSync(h) =>
            /\ tasks[h].span.name = "ChainContractSync"
            /\ tasks[h].span.chain = DomainOf(tasks[h].sync.domain).name
            /\ tasks[h].span.event = tasks[h].label
            /\ tasks[h].label = tasks[h].sync.label
            /\ tasks[h].label \in SyncLabels
    /\ \A h, k \in Handles :
         (IsSync(h) /\ IsSync(k) /\ h # k) =>
            << tasks[h].span.chain, tasks[h].span.event >> #
            << tasks[k].span.chain, tasks[k].span.event >>

(* C8: each configured domain has exactly one metrics task, and it is a      *)
(* member of the same group as the domain's three sync tasks.                *)
C8_MetricsInGroupOfSyncTasks ==
    pc = "returned" =>
        \A d \in ConfiguredIds :
           /\ Cardinality({m \in Handles : IsMetrics(m) /\ tasks[m].domain = d}) = 1
           /\ \A m \in Handles : (IsMetrics(m) /\ tasks[m].domain = d) =>
                \E g \in Handles :
                   /\ IsGroup(g)
                   /\ m \in Range(tasks[g].members)
                   /\ \A h \in Handles : (IsSync(h) /\ tasks[h].domain = d) =>
                        h \in Range(tasks[g].members)

(* C9: the registry of a built agent has exactly one entry per configured    *)
(* domain: every configured domain has its entry, stored under the domain's  *)
(* id, with the index settings and the database accessor of that domain's    *)
(* chain setup, and there is no other entry.                                 *)
C9_RegistryMatchesConfig ==
    agent.built =>
        /\ DOMAIN agent.scrapers = ConfiguredIds
        /\ Cardinality(DOMAIN agent.scrapers) = Cardinality(configured)
        /\ \A d \in configured : agent.scrapers[d.id].domain = d
        /\ \A k \in DOMAIN agent.scrapers :
             LET e == agent.scrapers[k]
             IN  /\ e.domain.id = k
                 /\ e.domain \in configured
                 /\ e.index_settings.chain = k
                 /\ e.db.domain = k
                 /\ e.db.mailbox.chain = k
                 /\ e.db.index = e.index_settings

\* the half of C9 the agent keeps: every entry is a configured domain's,
\* stored under its id with its own settings, and every id has an entry
C9_EntriesAreConfigured ==
    agent.built =>
        /\ DOMAIN agent.scrapers = ConfiguredIds
        /\ \A k \in DOMAIN agent.scrapers :
             LET e == agent.scrapers[k]
             IN  /\ e.domain.id = k
                 /\ e.domain \in configured
                 /\ e.index_settings.chain = k
                 /\ e.db.domain = k

(* C10: when chain setup, provider or database accessor of any configured    *)
(* domain fails, from_settings yields no agent, wherever the domain stands.  *)
FromSettingsFailures == {"connect", "chain_setup", "build_provider", "sql_db"}

C10_NoAgentAfterFailure ==
    /\ failure.step \in FromSettingsFailures =>
         (~agent.built /\ pc \in {"fs_err", "panic"} /\ Len(tasks) = 0)
    /\ agent.built => DOMAIN agent.scrapers = ConfiguredIds

\* the second domain of the list failed after the first was put in the map
C10_Witness ==
    /\ Cardinality(configured) = 2
    /\ failure.step \in {"chain_setup", "build_provider", "sql_db"}
    /\ failure.at = 2
    /\ Cardinality(DOMAIN scrapers) = 1
    /\ failure.domain \notin DOMAIN scrapers
    /\ ~agent.built

(* C11: a handle is handed to a group only once its task is fully built:     *)
(* every handle in a Vec that goes to run_all, and every member of a group,  *)
(* is a task spawned before the group, with its engine and its cursor built; *)
(* the group of scrape() for a domain holds the domain's three sync tasks.   *)
Built(h) ==
    /\ h \in Handles
    /\ IsSync(h) => /\ tasks[h].sync # NoSync
                    /\ tasks[h].sync.label = tasks[h].label
                    /\ tasks[h].cursor # NoCursor
                    /\ tasks[h].cursor.kind \in {"forward", "rate_limited"}

C11_ConstructBeforeRegister ==
    /\ \A h \in Range(scrapeTasks) \cup Range(runTasks) : Built(h)
    /\ \A g \in Handles :
         IsGroup(g) =>
            /\ \A m \in Range(tasks[g].members) : Built(m) /\ m < g
            /\ tasks[g].domain # 0 =>
                 /\ Len(tasks[g].members) = 3
                 /\ {tasks[m].label : m \in Range(tasks[g].members)} = SyncLabels
                 /\ \A m \in Range(tasks[g].members) :
                      IsSync(m) /\ tasks[m].domain = tasks[g].domain
                 /\ \A h \in Handles :
                      (IsSync(h) /\ tasks[h].domain = tasks[g].domain) =>
                          h \in Range(tasks[g].members)

\* run() has returned for two domains: two groups of scrape(), three sync
\* tasks each, and the top-level group over them and the two metrics tasks
C11_Witness ==
    /\ pc = "returned"
    /\ handle # 0
    /\ Len(tasks[handle].members) = 4
    /\ Cardinality({g \in Handles : /\ IsGroup(g)
                                    /\ tasks[g].domain # 0
                                    /\ Len(tasks[g].members) = 3}) = 2

(* C12: the engine of every sync task of a domain is bound to the database   *)
(* handle of the domain's registry entry, its cursor is built from the index *)
(* settings of that entry, and the nonce that seeds the dispatch cursor is   *)
(* read through the handle of that same entry; nothing of another domain.    *)
WiredTo(h, d) ==
    /\ tasks[h].domain = d
    /\ tasks[h].sync.domain = d
    /\ tasks[h].sync.db = agent.scrapers[d].db
    /\ tasks[h].sync.db.domain = d
    /\ tasks[h].cursor.index_settings = agent.scrapers[d].index_settings
    /\ tasks[h].cursor.index_settings = chain_setup(DomainOf(d)).index

C12_NoCrossDomainWiring ==
    /\ \A h \in Range(scrapeTasks) : WiredTo(h, cur)
    /\ \A g \in Handles :
         (IsGroup(g) /\ tasks[g].domain # 0) =>
             \A m \in Range(tasks[g].members) : WiredTo(m, tasks[g].domain)
    /\ \A h \in Handles :
         IsSync(h) => \/ h \in Range(scrapeTasks)
                      \/ \E g \in Handles :
                            IsGroup(g) /\ h \in Range(tasks[g].members)
    /\ pc = "msg_spawn" =>
         /\ sync.db = agent.scrapers[cur].db
         /\ sync.domain = cur
         /\ cursor.index_settings = agent.scrapers[cur].index_settings
    /\ \A i \in 1..Len(lookups) : lookups[i].of = lookups[i].domain

\* sync tasks of two domains exist, each seeded by a lookup of its own
C12_Witness ==
    /\ \E h, k \in Handles :
         /\ IsDispatch(h) /\ IsDispatch(k)
         /\ tasks[h].sync.db.domain = ethereum.id
         /\ tasks[k].sync.db.domain = optimism.id
    /\ \E h \in Handles : tasks[h].label = "gas_payment"
                          /\ tasks[h].domain = optimism.id
    /\ LookupsOf(ethereum.id) # {} /\ LookupsOf(optimism.id) # {}

(* C13: the lookup of the last persisted nonce is made for message_dispatch  *)
(* only: the message_delivery and gas_payment cursors are rate-limited ones  *)
(* built from the index settings alone, and one run() makes one lookup per   *)
(* domain it has built the dispatch cursor of.                               *)
DispatchBuilt(d) ==
    \/ \E h \in Handles : IsDispatch(h) /\ tasks[h].domain = d
    \/ pc \in {"msg_fwd", "msg_spawn"} /\ cur = d

C13_LookupOnlyForDispatch ==
    /\ \A i \in 1..Len(lookups) : lookups[i].for = "message_dispatch"
    /\ \A d \in DomainIds :
         Cardinality(LookupsOf(d)) = IF DispatchBuilt(d) THEN 1 ELSE 0
    /\ Len(lookups) = Cardinality({d \in DomainIds : DispatchBuilt(d)})
    /\ pc = "returned" =>
         \A d \in ConfiguredIds : Cardinality(LookupsOf(d)) = 1
    /\ \A h \in Handles :
         (IsSync(h) /\ ~IsDispatch(h)) =>
            /\ tasks[h].cursor.kind = "rate_limited"
            /\ tasks[h].cursor.start = NoNonce
            /\ tasks[h].cursor =
                   rate_limited_cursor(agent.scrapers[tasks[h].domain].index_settings)

\* run() has returned for two domains: six sync tasks, two lookups
C13_Witness ==
    /\ pc = "returned"
    /\ Cardinality({h \in Handles : IsSync(h) /\ ~IsDispatch(h)}) = 4
    /\ Cardinality({h \in Handles : IsDispatch(h)}) = 2
    /\ Len(lookups) = 2

(* C14: within one run every (domain, label) sync task and every metrics     *)
(* task is spawned at most once, also after such a task has exited; once     *)
(* run() has returned no task is added and no exited task runs again.        *)
SpawnedOnce ==
    \A d \in DomainIds :
       /\ \A label \in SyncLabels :
            Cardinality({h \in Handles : /\ IsSync(h)
                                         /\ tasks[h].domain = d
                                         /\ tasks[h].label = label}) <= 1
       /\ Cardinality({h \in Handles : IsMetrics(h) /\ tasks[h].domain = d}) <= 1

NoRespawn ==
    (pc = "returned" /\ pc' = "returned") =>
        /\ Len(tasks') = Len(tasks)
        /\ \A h \in Handles :
             /\ tasks'[h].kind = tasks[h].kind
             /\ tasks'[h].domain = tasks[h].domain
             /\ tasks'[h].label = tasks[h].label
             /\ tasks[h].status # "running" => tasks'[h].status = tasks[h].status

C14_NoRetry == []SpawnedOnce /\ [][NoRespawn]_vars

\* run() has returned, a sync task has exited with an error, and its domain
\* still has its four tasks and no other task of that label
C14_Witness ==
    /\ pc = "returned"
    /\ \E h \in Handles :
         /\ IsSync(h)
         /\ tasks[h].status = "err"
         /\ Cardinality(LeafTasksOf(tasks[h].domain)) = 4
         /\ \A k \in Handles :
              (IsSync(k) /\ tasks[k].domain = tasks[h].domain
                         /\ tasks[k].label = tasks[h].label) => k = h

(* C15: the step in which a group resolves changes no other task: members    *)
(* still running stay running (no task is ever cancelled), and a resolved    *)
(* group waits no more: its outcome and its source stay as they are.         *)
Resolves(g) ==
    /\ IsGroup(g)
    /\ tasks[g].status = "running"
    /\ g \in DOMAIN tasks'
    /\ tasks'[g].status # "running"

OthersUntouched ==
    \A g \in Handles :
       Resolves(g) =>
          /\ Len(tasks') = Len(tasks)
          /\ \A h \in Handles \ {g} : tasks'[h] = tasks[h]

ResolvedStays ==
    \A g \in Handles :
       (IsGroup(g) /\ tasks[g].status # "running" /\ g \in DOMAIN tasks') =>
           tasks'[g] = tasks[g]

NeverCancelled ==
    \A h \in Handles : tasks[h].status \in {"running", "ok", "err"}

C15_RemainingAbandoned ==
    /\ []NeverCancelled
    /\ [][OthersUntouched /\ ResolvedStays]_vars

\* a group of scrape() has resolved from its first member to exit while its
\* two other members are still running
C15_Witness ==
    \E g \in Handles :
       /\ IsGroup(g)
       /\ tasks[g].domain # 0
       /\ tasks[g].status # "running"
       /\ Cardinality({m \in Range(tasks[g].members) :
                          tasks[m].status = "running"}) = 2

(* C16: when the lookup of the last persisted nonce fails with an error, the *)
(* builder goes on: the value is taken as 0, the dispatch cursor starts at   *)
(* 0, nothing is recorded as a failure, and message_dispatch is spawned.     *)
LookupFails ==
    /\ Len(lookups') = Len(lookups) + 1
    /\ lookups'[Len(lookups')].tag = "Err"

ErrorDiscarded ==
    LookupFails =>
        /\ pc' = "msg_fwd"
        /\ failure' = NoFailure
        /\ latest_nonce' = 0
        /\ tasks' = tasks

CursorAfterError ==
    (pc = "msg_fwd" /\ pc' = "msg_spawn"
                    /\ lookups[Len(lookups)].tag = "Err") =>
        /\ cursor'.kind = "forward"
        /\ cursor'.start = 0
        /\ cursor'.next = 0
        /\ failure' = NoFailure

SpawnedAfterError ==
    \A i \in 1..Len(lookups) :
       lookups[i].tag = "Err" =>
          /\ DispatchBuilt(lookups[i].domain)
          /\ (pc = "msg_spawn" /\ i = Len(lookups)) => cursor.start = 0
          /\ \A h \in Handles :
               (IsDispatch(h) /\ tasks[h].domain = lookups[i].domain) =>
                  /\ tasks[h].cursor.start = 0
                  /\ tasks[h].cursor.kind = "forward"
                  /\ tasks[h].handle_span = info_span(DomainOf(tasks[h].domain),
                                               "message_dispatch")

C16_LookupErrorDiscarded ==
    []SpawnedAfterError /\ [][ErrorDiscarded /\ CursorAfterError]_vars

\* the lookup failed although nonce 1000 is stored: the dispatch task runs
\* with a cursor at 0, next to the two other streams of the domain
C16_Witness ==
    \E h \in Handles :
       /\ IsDispatch(h)
       /\ tasks[h].status = "running"
       /\ tasks[h].cursor.start = 0
       /\ db[tasks[h].domain] = 1000
       /\ \E i \in LookupsOf(tasks[h].domain) : lookups[i].tag = "Err"
       /\ \E k \in Handles : /\ tasks[k].label = "gas_payment"
                              /\ tasks[k].domain = tasks[h].domain

(* C17: a group resolves only after a sync or metrics task has exited: the   *)
(* outcome of a resolved group, and of the handle run() returned, comes from *)
(* such a task that exited before it; while every sync and metrics task is   *)
(* running, no group of scrape() and no top-level group has resolved.        *)
IsLeaf(h) == IsSync(h) \/ IsMetrics(h)
Exited(h) == tasks[h].status # "running" /\ FinishedAt(h) > 0

C17_NoSpuriousResolution ==
    /\ \A g \in Handles :
         (IsGroup(g) /\ tasks[g].status # "running") =>
            /\ IsLeaf(Origin(g))
            /\ Exited(Origin(g))
            /\ FinishedAt(Origin(g)) < FinishedAt(g)
            /\ tasks[g].status = tasks[Origin(g)].status
            /\ tasks[g].from \in Range(tasks[g].members)
    /\ (handle # 0 /\ tasks[handle].status # "running") =>
          \E h \in Handles : IsLeaf(h) /\ Exited(h)
    /\ (\A h \in Handles : IsLeaf(h) => tasks[h].status = "running") =>
          \A g \in Handles : IsGroup(g) => tasks[g].status = "running"

\* the handle of run() has resolved with the error of the one task that
\* exited, passed on by the group of scrape(); the other tasks are running
C17_Witness ==
    /\ handle # 0
    /\ tasks[handle].status = "err"
    /\ IsGroup(tasks[handle].from)
    /\ IsSync(Origin(handle))
    /\ Cardinality({h \in Handles : IsLeaf(h) /\ Exited(h)}) = 1
    /\ Cardinality({h \in Handles : IsLeaf(h) /\ tasks[h].status = "running"}) >= 3

====
